---------------------------- MODULE Spec2Model ----------------------------
(***************************************************************************)
(* State-machine model of the KMS signature normalization of               *)
(* universal-signer (src/src/utils/kms.ts): the DER decoder                *)
(* parseDerSignature, the low-S normalization and the recovery of v in     *)
(* normalizeKmsSignature.                                                  *)
(*                                                                         *)
(* JavaScript bigints are unbounded, so a bigint is modelled as a record   *)
(* [neg, mag]: a sign and a magnitude, the magnitude a big-endian sequence *)
(* of bytes without leading zero bytes (zero is the empty sequence).       *)
(* A hex string "0x..." is modelled as the sequence of its hex digits      *)
(* (values 0..15) after the "0x".  A buffer is a sequence of bytes; the    *)
(* code's 0-based offset o addresses element o + 1.                        *)
(***************************************************************************)
EXTENDS Integers, Sequences, FiniteSets, TLC

\* ------------------------------------------------------------------------
\* Bigint arithmetic on magnitudes
\* ------------------------------------------------------------------------

RECURSIVE Strip(_)
\* Drops the leading zero elements of a sequence of digits.
Strip(b) ==
    IF b = <<>> THEN <<>>
    ELSE IF Head(b) = 0 THEN Strip(Tail(b))
    ELSE b

\* n zero digits.
Zeros(n) == [i \in 1..n |-> 0]

\* The magnitude b left-padded with zeros to n digits (n >= Len(b)).
PadTo(b, n) == Zeros(n - Len(b)) \o b

RECURSIVE LexLess(_, _)
\* a < b for digit sequences of the same length.
LexLess(a, b) ==
    IF a = <<>> THEN FALSE
    ELSE IF Head(a) # Head(b) THEN Head(a) < Head(b)
    ELSE LexLess(Tail(a), Tail(b))

\* a < b on magnitudes (stripped byte sequences).
MagLess(a, b) ==
    IF Len(a) # Len(b) THEN Len(a) < Len(b) ELSE LexLess(a, b)

RECURSIVE SubDigits(_, _, _, _, _)
\* The digits of a - b from digit i down to the first, given the borrow into
\* digit i and the digits acc already computed (a and b of the same length).
SubDigits(a, b, i, borrow, acc) ==
    IF i = 0 THEN acc
    ELSE LET d == a[i] - b[i] - borrow
         IN  SubDigits(a, b, i - 1, IF d < 0 THEN 1 ELSE 0, <<d % 256>> \o acc)

\* a - b on magnitudes, for a >= b: schoolbook subtraction with borrow.
MagSub(a, b) == Strip(SubDigits(a, PadTo(b, Len(a)), Len(a), 0, <<>>))

\* floor(a / 2) on a magnitude: each byte takes the low bit of the one before.
MagHalf(a) ==
    Strip([i \in 1..Len(a) |->
              ((IF i = 1 THEN 0 ELSE a[i - 1] % 2) * 256 + a[i]) \div 2])

\* Signed bigints.
Big(m) == [neg |-> FALSE, mag |-> m]

\* x > y for a bigint x and a nonnegative bigint y.
BigGreater(x, y) == ~x.neg /\ MagLess(y.mag, x.mag)

\* x - y for nonnegative bigints x, y (the result may be negative).
BigSub(x, y) ==
    IF MagLess(x.mag, y.mag)
    THEN [neg |-> TRUE, mag |-> MagSub(y.mag, x.mag)]
    ELSE [neg |-> FALSE, mag |-> MagSub(x.mag, y.mag)]

\* SECP256k1 curve order N.
CURVE_N ==
    Big(<<255, 255, 255, 255, 255, 255, 255, 255,
          255, 255, 255, 255, 255, 255, 255, 254,
          186, 174, 220, 230, 175,  72, 160,  59,
          191, 210,  94, 140, 208,  54,  65,  65>>)

\* const halfN = CURVE_N / 2n
halfN == Big(MagHalf(CURVE_N.mag))

\* ------------------------------------------------------------------------
\* parseDerSignature
\* ------------------------------------------------------------------------

ErrUnexpectedEnd == "Invalid DER: Unexpected end of data"
ErrMissingSequence == "Invalid DER: Missing Sequence"
ErrLengthOutOfBounds == "Invalid DER: Length out of bounds"
ErrMissingInteger == "Invalid DER: Missing Integer"
ErrIntegerOutOfBounds == "Invalid DER: Integer out of bounds"
\* BigInt("0x") of an empty slice: the engine's SyntaxError, not an Invalid DER error.
ErrBigIntSyntax == "SyntaxError: Cannot convert 0x to a BigInt"

\* The SEQUENCE tag 0x30 and the INTEGER tag 0x02.
SequenceTag == 48
IntegerTag == 2

\* Faulty variant: the INTEGER tag is not checked.
isIntegerTagUnchecked(b) == TRUE

\* readByte() !== 0x30 and readByte() !== 0x02, negated.
isSequenceTag(b) == b = SequenceTag
isIntegerTag(b) == b = IntegerTag

DerErrors ==
    {ErrUnexpectedEnd, ErrMissingSequence, ErrLengthOutOfBounds,
     ErrMissingInteger, ErrIntegerOutOfBounds}

\* A thrown error / a value with the cursor after it.
Throw(e) == [ok |-> FALSE, err |-> e]
Value(v, o) == [ok |-> TRUE, val |-> v, off |-> o]

\* Faulty variant: offset > der.length instead of >=; the byte at der.length
\* is undefined.
readByteOffByOne(der, o) ==
    IF o > Len(der) THEN Throw(ErrUnexpectedEnd)
    ELSE Value(IF o < 0 \/ o = Len(der) THEN -1 ELSE der[o + 1], o + 1)

\* readByte at offset o.  A negative offset is below der.length, so the guard
\* passes and der[o] is undefined (modelled as -1).
readByte(der, o) ==
    IF o >= Len(der) THEN Throw(ErrUnexpectedEnd)
    ELSE Value(IF o < 0 THEN -1 ELSE der[o + 1], o + 1)

\* (len << 8) | b on 32-bit signed integers: the low 24 bits of len move up one
\* byte, bit 23 becomes the sign bit.
Shl8Or(len, b) ==
    LET low == len % 16777216
    IN  IF low >= 8388608 THEN (low - 16777216) * 256 + b ELSE low * 256 + b

RECURSIVE readLongLen(_, _, _, _)
\* for (let i = 0; i < n; i++) len = (len << 8) | readByte();
readLongLen(der, o, n, len) ==
    IF n = 0 THEN Value(len, o)
    ELSE LET b == readByte(der, o)
         IN  IF ~b.ok THEN b
             ELSE readLongLen(der, b.off, n - 1, Shl8Or(len, b.val))

\* Faulty variant: the slice starts one byte late, subarray(start + 1, end).
\* An index of subarray, relative to the end when negative, clamped to the
\* buffer.
RelativeIndex(der, i) ==
    LET k == IF i < 0 THEN Len(der) + i ELSE i
    IN  IF k < 0 THEN 0 ELSE IF k > Len(der) THEN Len(der) ELSE k

subarrayFromNext(der, start, end) ==
    LET b == RelativeIndex(der, start)
        e == RelativeIndex(der, end)
    IN  IF e <= b + 1 THEN <<>>
        ELSE [i \in 1..(e - b - 1) |-> der[b + 1 + i]]

\* der.subarray(start, end): a negative index counts from the end of the
\* buffer, both ends are clamped to the buffer, an end before the start gives
\* no bytes.
subarray(der, start, end) ==
    LET b == RelativeIndex(der, start)
        e == RelativeIndex(der, end)
    IN  IF e <= b THEN <<>> ELSE [i \in 1..(e - b) |-> der[b + i]]

\* BigInt("0x" + Buffer.from(bytes).toString("hex")): the big-endian value of
\* the bytes; no bytes give "0x", which BigInt rejects.
bytesToBigInt(bytes) ==
    IF bytes = <<>> THEN Throw(ErrBigIntSyntax)
    ELSE [ok |-> TRUE, val |-> Big(Strip(bytes))]

\* readInt at offset o: the INTEGER tag, its length, its content as a bigint.
readInt(der, o) ==
    LET tag == readByte(der, o)
    IN  IF ~tag.ok THEN tag
        ELSE IF ~isIntegerTag(tag.val) THEN Throw(ErrMissingInteger)
        ELSE
          LET first == readByte(der, tag.off)
          IN  IF ~first.ok THEN first
              ELSE
                LET len == IF first.val \div 128 = 1
                           THEN readLongLen(der, first.off, first.val % 128, 0)
                           ELSE first
                IN  IF ~len.ok THEN len
                    ELSE
                      LET start == len.off
                      IN  \* offset += len; if (offset > der.length) throw
                          IF len.val > Len(der) - start
                          THEN Throw(ErrIntegerOutOfBounds)
                          ELSE
                            LET v == bytesToBigInt(
                                       subarray(der, start, start + len.val))
                            IN  IF ~v.ok THEN v
                                ELSE Value(v.val, start + len.val)

\* parseDerSignature(der): [ok |-> TRUE, r, s] or [ok |-> FALSE, err].
parseDerSignature(der) ==
    LET seq == readByte(der, 0)
    IN  IF ~seq.ok THEN seq
        ELSE IF ~isSequenceTag(seq.val) THEN Throw(ErrMissingSequence)
        ELSE
          LET lenByte == readByte(der, seq.off)
          IN  IF ~lenByte.ok THEN lenByte
              ELSE
                LET offset == IF lenByte.val \div 128 = 1
                              THEN lenByte.off + (lenByte.val % 128)
                              ELSE lenByte.off
                IN  IF offset > Len(der) THEN Throw(ErrLengthOutOfBounds)
                    ELSE
                      LET r == readInt(der, offset)
                      IN  IF ~r.ok THEN r
                          ELSE
                            LET s == readInt(der, r.off)
                            IN  IF ~s.ok THEN s
                                ELSE [ok |-> TRUE, r |-> r.val, s |-> s.val]

\* size: 32 in pad(numberToHex(..), { size: 32 }).
WordSize == 32

\* ------------------------------------------------------------------------
\* viem helpers used by normalizeKmsSignature: numberToHex, pad, hexToBigInt
\* ------------------------------------------------------------------------

ErrIntegerOutOfRange == "IntegerOutOfRangeError"
ErrSizeExceedsPaddingSize == "SizeExceedsPaddingSizeError"

\* The hex digits of a magnitude, two per byte.
MagToNibbles(m) ==
    [i \in 1..(2 * Len(m)) |->
        IF i % 2 = 1 THEN m[(i + 1) \div 2] \div 16 ELSE m[i \div 2] % 16]

\* numberToHex(value): value.toString(16) after "0x" ("0x0" for zero); a
\* negative value is out of range.
numberToHex(b) ==
    IF b.neg /\ b.mag # <<>> THEN Throw(ErrIntegerOutOfRange)
    ELSE LET h == Strip(MagToNibbles(b.mag))
         IN  [ok |-> TRUE, val |-> IF h = <<>> THEN <<0>> ELSE h]

\* Faulty variant: the hex digits are returned as they are, without padding.
padSkipped(hex, size) == [ok |-> TRUE, val |-> hex]

\* pad(hex, { size }): left-pads with "0" to 2 * size digits; a longer hex throws.
pad(hex, size) ==
    IF Len(hex) > 2 * size THEN Throw(ErrSizeExceedsPaddingSize)
    ELSE [ok |-> TRUE, val |-> PadTo(hex, 2 * size)]

\* pad(numberToHex(b), { size: 32 })
toWord(b) ==
    LET h == numberToHex(b)
    IN  IF ~h.ok THEN h ELSE pad(h.val, WordSize)

\* The bytes of an even number of hex digits.
NibblesToBytes(h) == [i \in 1..(Len(h) \div 2) |-> h[2 * i - 1] * 16 + h[2 * i]]

\* hexToBigInt(hex): the value of a hex string, as the recovery primitive reads r and s.
hexToBigInt(hex) ==
    Big(Strip(NibblesToBytes(IF Len(hex) % 2 = 1 THEN <<0>> \o hex ELSE hex)))

\* ------------------------------------------------------------------------
\* Strings: addresses and letter case
\* ------------------------------------------------------------------------

\* An address is the sequence of the characters of its "0x..." text.
UpperChars == <<"A", "B", "C", "D", "E", "F", "X">>
LowerChars == <<"a", "b", "c", "d", "e", "f", "x">>

\* String.prototype.toLowerCase / toUpperCase on the characters of a hex text.
charToLower(ch) ==
    IF \E i \in 1..Len(UpperChars) : UpperChars[i] = ch
    THEN LowerChars[CHOOSE i \in 1..Len(UpperChars) : UpperChars[i] = ch]
    ELSE ch
charToUpper(ch) ==
    IF \E i \in 1..Len(LowerChars) : LowerChars[i] = ch
    THEN UpperChars[CHOOSE i \in 1..Len(LowerChars) : LowerChars[i] = ch]
    ELSE ch
toLowerCase(str) == [i \in 1..Len(str) |-> charToLower(str[i])]
toUpperCase(str) == [i \in 1..Len(str) |-> charToUpper(str[i])]

\* Faulty variant: the addresses compared as given, without toLowerCase().
addressMatchesExact(recovered, expectedAddress) ==
    recovered = expectedAddress

\* recovered.toLowerCase() === expectedAddress.toLowerCase()
addressMatches(recovered, expectedAddress) ==
    toLowerCase(recovered) = toLowerCase(expectedAddress)

\* The address of the tests' private key 0xac09...ff80 (checksummed, as viem returns it).
AccountAddress ==
    <<"0", "x", "f", "3", "9", "F", "d", "6", "e", "5", "1", "a", "a", "d",
      "8", "8", "F", "6", "F", "4", "c", "e", "6", "a", "B", "8", "8", "2",
      "7", "2", "7", "9", "c", "f", "f", "F", "b", "9", "2", "2", "6", "6">>

\* Another account's address, which recovery may produce for other inputs.
OtherAddress ==
    <<"0", "x", "7", "0", "9", "9", "7", "9", "7", "0", "C", "5", "1", "8",
      "1", "2", "d", "c", "3", "A", "0", "1", "0", "C", "7", "d", "0", "1",
      "b", "5", "0", "e", "0", "d", "1", "7", "d", "c", "7", "9", "C", "8">>

\* The tests' address that matches nothing.
WrongAddress ==
    <<"0", "x", "0", "0", "0", "0", "0", "0", "0", "0", "0", "0", "0", "0",
      "0", "0", "0", "0", "0", "0", "0", "0", "0", "0", "0", "0", "0", "0",
      "0", "0", "0", "0", "0", "0", "0", "0", "0", "0", "0", "0", "0", "1">>

\* ------------------------------------------------------------------------
\* The tests' encoder (createDerSignature) and the inputs of the model
\* ------------------------------------------------------------------------

\* bigintToBytes(n): n.toString(16).padStart(64, "0") cut into pairs of digits,
\* leading zero bytes removed but one byte kept.
\* hex.padStart(64, "0")
padStart64(hex) == IF Len(hex) < 2 * WordSize THEN PadTo(hex, 2 * WordSize) ELSE hex

\* parseInt(hex.slice(i, i + 2), 16) for i = 0, 2, ...: the last slice of an odd
\* number of digits holds one digit.
hexPairs(hex) ==
    [i \in 1..((Len(hex) + 1) \div 2) |->
        IF 2 * i <= Len(hex) THEN hex[2 * i - 1] * 16 + hex[2 * i]
        ELSE hex[2 * i - 1]]

\* while (bytes.length > 1 && bytes[0] === 0) bytes.shift()
dropLeadingZeros(bytes) ==
    IF Strip(bytes) = <<>> THEN <<0>> ELSE Strip(bytes)

bigintToBytes(n) ==
    IF n.mag = <<>> THEN <<0>>
    ELSE dropLeadingZeros(hexPairs(padStart64(Strip(MagToNibbles(n.mag)))))

\* The leading zero added when the high bit of the first byte is set.
derPadded(bytes) == IF bytes[1] >= 128 THEN <<0>> \o bytes ELSE bytes

\* createDerSignature(r, s): 0x30 totalLen 0x02 rLen r 0x02 sLen s.
createDerSignature(r, s) ==
    LET rPadded == derPadded(bigintToBytes(r))
        sPadded == derPadded(bigintToBytes(s))
        totalLen == 2 + Len(rPadded) + 2 + Len(sPadded)
    IN  <<48, totalLen>> \o <<2, Len(rPadded)>> \o rPadded
                         \o <<2, Len(sPadded)>> \o sPadded

\* Signature values.  SigR1 has its top bit set (DER pads it), SigR2 is 31 bytes
\* long after its zero top byte is dropped; SigS1 and SigS2 are low-S values.
SigR1 ==
    Big(<<200,  17,  34,  51,  68,  85, 102, 119,
          136, 153, 170, 187, 204, 221, 238, 255,
            1,  35,  69, 103, 137, 171, 205, 239,
          254, 220, 186, 152, 118,  84,  50,  16>>)
SigS1 ==
    Big(<< 35, 129,   2,   3,   4,   5,   6,   7,
            8,   9,  10,  11,  12,  13,  14,  15,
           16,  17,  18,  19,  20,  21,  22,  23,
           24,  25,  26,  27,  28,  29,  30,  31>>)
SigR2 ==
    Big(<<       90,  27,  60,  77,  94, 111, 112,
          129, 146, 163, 180, 197, 214, 231, 248,
            9,  26,  43,  60,  77,  94, 111, 128,
          145, 162, 179, 196, 213, 230, 247,   8>>)
SigS2 ==
    Big(<<127, 255, 255, 255, 255, 255, 255, 255,
          255, 255, 255, 255, 255, 255, 255, 255,
           93,  87, 110, 115,  87, 164,  80,  29,
          223, 233,  47,  70, 104,  27,  32, 159>>)

BigZero == Big(<<>>)
BigOne == Big(<<1>>)
\* 2^256 - 1, the largest 32-byte value, and 16 * 2^256, a 33-byte value.
BigMaxWord == Big([i \in 1..WordSize |-> 255])
BigOverWord == Big(<<16>> \o Zeros(WordSize))

\* Digests: the hashes of two messages, opaque to this code.
DigestA == "digestA"
DigestB == "digestB"
Digests == {DigestA, DigestB}

\* ------------------------------------------------------------------------
\* The external recovery primitive recoverAddress (viem)
\* ------------------------------------------------------------------------

ErrRecover == "recoverAddress: invalid signature"

Recovered(a) == [ok |-> TRUE, val |-> a, err |-> ""]
RecoverThrows == [ok |-> FALSE, val |-> <<>>, err |-> ErrRecover]

\* The signatures the account of AccountAddress made: over DigestA (r, s) =
\* (SigR1, SigS1) with recovery identifier 27, over DigestB (SigR2, SigS2) with 28.
KnownSignatures ==
    {[hash |-> DigestA, r |-> SigR1, s |-> SigS1, v |-> 27],
     [hash |-> DigestB, r |-> SigR2, s |-> SigS2, v |-> 28]}

\* ECDSA recovery of a known signature: (r, s, v) recovers its signer, and so
\* does the mirrored (r, N - s) with the other recovery identifier.
RecoversSigner(k, hash, rv, sv, v) ==
    /\ k.hash = hash
    /\ k.r = rv
    /\ \/ k.s = sv /\ k.v = v
       \/ BigSub(CURVE_N, k.s) = sv /\ k.v # v

\* The same (r, s) or (r, N - s) with the wrong recovery identifier: the other
\* candidate public key, hence another address.
RecoversOtherKey(k, hash, rv, sv, v) ==
    /\ k.hash = hash
    /\ k.r = rv
    /\ \/ k.s = sv /\ k.v # v
       \/ BigSub(CURVE_N, k.s) = sv /\ k.v = v

\* What the primitive does on every other input is up to the environment e:
\* an address or an exception, fixed per recovery identifier.
RecoverOutcomes == {Recovered(AccountAddress), Recovered(OtherAddress), RecoverThrows}
Environments == [{27, 28} -> RecoverOutcomes]

\* recoverAddress({ hash, signature: { r, s, v } }) in environment e.
recoverAddress(e, hash, r, s, v) ==
    IF \E k \in KnownSignatures :
          RecoversSigner(k, hash, hexToBigInt(r), hexToBigInt(s), v)
    THEN Recovered(AccountAddress)
    ELSE IF \E k \in KnownSignatures :
          RecoversOtherKey(k, hash, hexToBigInt(r), hexToBigInt(s), v)
    THEN Recovered(OtherAddress)
    ELSE e[v]

\* ------------------------------------------------------------------------
\* normalizeKmsSignature as a state machine
\* ------------------------------------------------------------------------

\* Faulty variant: no normalization of s.
normalizeSSkipped(sBig) == sBig

\* Faulty variant: s >= halfN instead of s > halfN.
normalizeSAtHalf(sBig) ==
    IF ~BigGreater(halfN, sBig) THEN BigSub(CURVE_N, sBig) ELSE sBig

\* Faulty variant: s mirrored whatever its size.
normalizeSAlways(sBig) == BigSub(CURVE_N, sBig)

\* if (sBig > halfN) sBig = CURVE_N - sBig;
normalizeS(sBig) ==
    IF BigGreater(sBig, halfN) THEN BigSub(CURVE_N, sBig) ELSE sBig

\* Callers of normalizeKmsSignature.
Calls == {1, 2}
\* The caller of the specification with one call at a time.
SingleCaller == {1}

VARIABLES
    env,            \* the behaviour of the external recovery primitive
    pc,             \* pc[c]: where call c stands
    args,           \* args[c]: derSignature, digest, expectedAddress
    rBig, sBig,     \* the decoded r and the decoded, then normalized, s
    sParsed,        \* the s the decoder returned (history of sBig)
    rHex, sHex,     \* r and s: 32-byte hex words
    recoveredV27,   \* the address recovered at v = 27
    recoveredV28,   \* the address recovered at v = 28
    invoked,        \* invoked[c]: the v of each recoverAddress invocation, in order
    result,         \* result[c]: what the call returned or threw
    parsed          \* the decoder called alone: its input and its result

\* The Trezor provider.
VARIABLES
    initializationPromises, \* manifest key -> the promise of TrezorConnect.init
    initCalls,              \* manifest key -> invocations of TrezorConnect.init
    tz                      \* tz[t]: the createTrezorAccount call and the
                            \* account of caller t

trezorVars == <<initializationPromises, initCalls, tz>>

vars == <<env, pc, args, rBig, sBig, sParsed, rHex, sHex, recoveredV27,
          recoveredV28, invoked, result, parsed, trezorVars>>

callVars == <<env, pc, args, rBig, sBig, sParsed, rHex, sHex, recoveredV27,
              recoveredV28, invoked, result>>

NoArgs == [der |-> <<>>, digest |-> "", expectedAddress |-> <<>>]
NoError == [message |-> "", expected |-> <<>>, got27 |-> <<>>, got28 |-> <<>>]
NoResult == [kind |-> "none", r |-> <<>>, s |-> <<>>, v |-> 0, err |-> NoError]

\* Faulty variant: v: 27n returned by both return statements.
ReturnedV27(r, s, v) ==
    [kind |-> "return", r |-> r, s |-> s, v |-> 27, err |-> NoError]

\* return { r, s, v }
Returned(r, s, v) == [kind |-> "return", r |-> r, s |-> s, v |-> v, err |-> NoError]

\* throw of an error with this message
Thrown(msg) ==
    [kind |-> "throw", r |-> <<>>, s |-> <<>>, v |-> 0,
     err |-> [message |-> msg, expected |-> <<>>, got27 |-> <<>>, got28 |-> <<>>]]

ErrRecoveryFailed == "KMS Signature Recovery Failed"

\* Faulty variant: the message names recoveredV27 twice.
RecoveryFailureTwice27(expectedAddress, got27, got28) ==
    [kind |-> "throw", r |-> <<>>, s |-> <<>>, v |-> 0,
     err |-> [message |-> ErrRecoveryFailed, expected |-> expectedAddress,
              got27 |-> got27, got28 |-> got27]]

\* throw new Error(`KMS Signature Recovery Failed. Expected: ${expectedAddress},
\* Got: ${recoveredV27} / ${recoveredV28}`)
RecoveryFailure(expectedAddress, got27, got28) ==
    [kind |-> "throw", r |-> <<>>, s |-> <<>>, v |-> 0,
     err |-> [message |-> ErrRecoveryFailed, expected |-> expectedAddress,
              got27 |-> got27, got28 |-> got28]]

\* Where a decoded buffer comes from: the first k bytes of the encoding whole
\* of (r, s) (kind "encoded"), or plain bytes.
NoOrigin == [kind |-> "bytes", whole |-> <<>>, r |-> BigZero, s |-> BigZero, k |-> 0]
NoParse == [called |-> FALSE, der |-> <<>>, origin |-> NoOrigin, ok |-> FALSE,
            err |-> "", r |-> BigZero, s |-> BigZero]

InitCalls ==
    /\ pc = [c \in Calls |-> "idle"]
    /\ args = [c \in Calls |-> NoArgs]
    /\ rBig = [c \in Calls |-> BigZero]
    /\ sBig = [c \in Calls |-> BigZero]
    /\ sParsed = [c \in Calls |-> BigZero]
    /\ rHex = [c \in Calls |-> <<>>]
    /\ sHex = [c \in Calls |-> <<>>]
    /\ recoveredV27 = [c \in Calls |-> <<>>]
    /\ recoveredV28 = [c \in Calls |-> <<>>]
    /\ invoked = [c \in Calls |-> <<>>]
    /\ result = [c \in Calls |-> NoResult]
    /\ parsed = NoParse

\* A caller calls normalizeKmsSignature(derSignature, digest, expectedAddress).
Invoke(c, der, digest, expectedAddress) ==
    /\ pc[c] = "idle"
    /\ pc' = [pc EXCEPT ![c] = "parse"]
    /\ args' = [args EXCEPT ![c] = [der |-> der, digest |-> digest,
                                    expectedAddress |-> expectedAddress]]
    /\ UNCHANGED <<env, rBig, sBig, sParsed, rHex, sHex, recoveredV27,
                   recoveredV28, invoked, result, parsed, trezorVars>>

\* The caller has taken the outcome of the call: the promise is settled and
\* the call's arguments and locals are gone.
Settle(c) ==
    /\ pc[c] = "done"
    /\ pc' = [pc EXCEPT ![c] = "idle"]
    /\ args' = [args EXCEPT ![c] = NoArgs]
    /\ rBig' = [rBig EXCEPT ![c] = BigZero]
    /\ sBig' = [sBig EXCEPT ![c] = BigZero]
    /\ sParsed' = [sParsed EXCEPT ![c] = BigZero]
    /\ rHex' = [rHex EXCEPT ![c] = <<>>]
    /\ sHex' = [sHex EXCEPT ![c] = <<>>]
    /\ recoveredV27' = [recoveredV27 EXCEPT ![c] = <<>>]
    /\ recoveredV28' = [recoveredV28 EXCEPT ![c] = <<>>]
    /\ invoked' = [invoked EXCEPT ![c] = <<>>]
    /\ result' = [result EXCEPT ![c] = NoResult]
    /\ UNCHANGED <<env, parsed, trezorVars>>

\* The call ends: it returns or throws res.
Finish(c, res) ==
    /\ pc' = [pc EXCEPT ![c] = "done"]
    /\ result' = [result EXCEPT ![c] = res]

\* Faulty variant: a decoding error is swallowed and the call goes on with
\* r = s = 0.
ParseStepLenient(c) ==
    /\ pc[c] = "parse"
    /\ LET p == parseDerSignature(args[c].der)
       IN  /\ rBig' = [rBig EXCEPT ![c] = IF p.ok THEN p.r ELSE BigZero]
           /\ sBig' = [sBig EXCEPT ![c] = IF p.ok THEN p.s ELSE BigZero]
           /\ sParsed' = [sParsed EXCEPT ![c] = IF p.ok THEN p.s ELSE BigZero]
           /\ pc' = [pc EXCEPT ![c] = "normalize"]
           /\ UNCHANGED result
    /\ UNCHANGED <<env, args, rHex, sHex, recoveredV27, recoveredV28, invoked, parsed, trezorVars>>

\* 1. Parse DER: let { r: rBig, s: sBig } = parseDerSignature(derSignature)
ParseStep(c) ==
    /\ pc[c] = "parse"
    /\ LET p == parseDerSignature(args[c].der)
       IN  IF p.ok
           THEN /\ rBig' = [rBig EXCEPT ![c] = p.r]
                /\ sBig' = [sBig EXCEPT ![c] = p.s]
                /\ sParsed' = [sParsed EXCEPT ![c] = p.s]
                /\ pc' = [pc EXCEPT ![c] = "normalize"]
                /\ UNCHANGED result
           ELSE /\ Finish(c, Thrown(p.err))
                /\ UNCHANGED <<rBig, sBig, sParsed>>
    /\ UNCHANGED <<env, args, rHex, sHex, recoveredV27, recoveredV28, invoked, parsed, trezorVars>>

\* 2. Normalize S (EIP-2)
NormalizeStep(c) ==
    /\ pc[c] = "normalize"
    /\ sBig' = [sBig EXCEPT ![c] = normalizeS(sBig[c])]
    /\ pc' = [pc EXCEPT ![c] = "encode"]
    /\ UNCHANGED <<env, args, rBig, sParsed, rHex, sHex, recoveredV27,
                   recoveredV28, invoked, result, parsed, trezorVars>>

\* Faulty variant: r and s are kept in variables shared by all calls instead
\* of locals of the call.
EncodeStepShared(c) ==
    /\ pc[c] = "encode"
    /\ LET r == toWord(rBig[c])
           s == toWord(sBig[c])
       IN  IF ~r.ok
           THEN Finish(c, Thrown(r.err)) /\ UNCHANGED <<rHex, sHex>>
           ELSE IF ~s.ok
           THEN Finish(c, Thrown(s.err)) /\ rHex' = [d \in Calls |-> r.val]
                                         /\ UNCHANGED sHex
           ELSE /\ rHex' = [d \in Calls |-> r.val]
                /\ sHex' = [d \in Calls |-> s.val]
                /\ pc' = [pc EXCEPT ![c] = "call27"]
                /\ UNCHANGED result
    /\ UNCHANGED <<env, args, rBig, sBig, sParsed, recoveredV27, recoveredV28,
                   invoked, parsed, trezorVars>>

\* const r = pad(numberToHex(rBig), { size: 32 }); const s = pad(numberToHex(sBig), ...)
EncodeStep(c) ==
    /\ pc[c] = "encode"
    /\ LET r == toWord(rBig[c])
           s == toWord(sBig[c])
       IN  IF ~r.ok
           THEN Finish(c, Thrown(r.err)) /\ UNCHANGED <<rHex, sHex>>
           ELSE IF ~s.ok
           THEN Finish(c, Thrown(s.err)) /\ rHex' = [rHex EXCEPT ![c] = r.val]
                                         /\ UNCHANGED sHex
           ELSE /\ rHex' = [rHex EXCEPT ![c] = r.val]
                /\ sHex' = [sHex EXCEPT ![c] = s.val]
                /\ pc' = [pc EXCEPT ![c] = "call27"]
                /\ UNCHANGED result
    /\ UNCHANGED <<env, args, rBig, sBig, sParsed, recoveredV27, recoveredV28,
                   invoked, parsed, trezorVars>>

\* Faulty variant: both recoveries are issued at once, the one at 28 without
\* waiting for the one at 27.
CallRecoverBoth(c, v) ==
    /\ pc[c] = (IF v = 27 THEN "call27" ELSE "call28")
    /\ invoked' = [invoked EXCEPT ![c] = IF v = 27 THEN @ \o <<27, 28>> ELSE @]
    /\ pc' = [pc EXCEPT ![c] = IF v = 27 THEN "await27" ELSE "await28"]
    /\ UNCHANGED <<env, args, rBig, sBig, sParsed, rHex, sHex, recoveredV27,
                   recoveredV28, result, parsed, trezorVars>>

\* recoverAddress({ hash: digest, signature: { r, s, v } }) is invoked; the call
\* is suspended at the await.
CallRecover(c, v) ==
    /\ pc[c] = (IF v = 27 THEN "call27" ELSE "call28")
    /\ invoked' = [invoked EXCEPT ![c] = Append(@, v)]
    /\ pc' = [pc EXCEPT ![c] = IF v = 27 THEN "await27" ELSE "await28"]
    /\ UNCHANGED <<env, args, rBig, sBig, sParsed, rHex, sHex, recoveredV27,
                   recoveredV28, result, parsed, trezorVars>>

\* Faulty variant: no return after the attempt at 27; the attempt at 28 decides.
Resume27Unmatched(c) ==
    /\ pc[c] = "await27"
    /\ LET rec == recoverAddress(env, args[c].digest, rHex[c], sHex[c], 27)
       IN  IF ~rec.ok
           THEN Finish(c, Thrown(rec.err)) /\ UNCHANGED recoveredV27
           ELSE /\ recoveredV27' = [recoveredV27 EXCEPT ![c] = rec.val]
                /\ pc' = [pc EXCEPT ![c] = "call28"]
                /\ UNCHANGED result
    /\ UNCHANGED <<env, args, rBig, sBig, sParsed, rHex, sHex, recoveredV28,
                   invoked, parsed, trezorVars>>

\* The recovery at v = 27 completes: an exception propagates, a matching address
\* returns { r, s, v: 27n }, any other address leads to the attempt at 28.
Resume27(c) ==
    /\ pc[c] = "await27"
    /\ LET rec == recoverAddress(env, args[c].digest, rHex[c], sHex[c], 27)
       IN  IF ~rec.ok
           THEN Finish(c, Thrown(rec.err)) /\ UNCHANGED recoveredV27
           ELSE /\ recoveredV27' = [recoveredV27 EXCEPT ![c] = rec.val]
                /\ IF addressMatches(rec.val, args[c].expectedAddress)
                   THEN Finish(c, Returned(rHex[c], sHex[c], 27))
                   ELSE pc' = [pc EXCEPT ![c] = "call28"] /\ UNCHANGED result
    /\ UNCHANGED <<env, args, rBig, sBig, sParsed, rHex, sHex, recoveredV28,
                   invoked, parsed, trezorVars>>

\* Faulty variant: an exception of the recovery at 28 is caught and counted as a
\* mismatch.
Resume28CatchAll(c) ==
    /\ pc[c] = "await28"
    /\ LET rec == recoverAddress(env, args[c].digest, rHex[c], sHex[c], 28)
       IN  IF ~rec.ok
           THEN /\ Finish(c, RecoveryFailure(args[c].expectedAddress,
                                             recoveredV27[c], <<>>))
                /\ UNCHANGED recoveredV28
           ELSE /\ recoveredV28' = [recoveredV28 EXCEPT ![c] = rec.val]
                /\ IF addressMatches(rec.val, args[c].expectedAddress)
                   THEN Finish(c, Returned(rHex[c], sHex[c], 28))
                   ELSE Finish(c, RecoveryFailure(args[c].expectedAddress,
                                                 recoveredV27[c], rec.val))
    /\ UNCHANGED <<env, args, rBig, sBig, sParsed, rHex, sHex, recoveredV27,
                   invoked, parsed, trezorVars>>

\* The recovery at v = 28 completes: an exception propagates, a matching address
\* returns { r, s, v: 28n }, any other address is the recovery failure.
Resume28(c) ==
    /\ pc[c] = "await28"
    /\ LET rec == recoverAddress(env, args[c].digest, rHex[c], sHex[c], 28)
       IN  IF ~rec.ok
           THEN Finish(c, Thrown(rec.err)) /\ UNCHANGED recoveredV28
           ELSE /\ recoveredV28' = [recoveredV28 EXCEPT ![c] = rec.val]
                /\ IF addressMatches(rec.val, args[c].expectedAddress)
                   THEN Finish(c, Returned(rHex[c], sHex[c], 28))
                   ELSE Finish(c, RecoveryFailure(args[c].expectedAddress,
                                                 recoveredV27[c], rec.val))
    /\ UNCHANGED <<env, args, rBig, sBig, sParsed, rHex, sHex, recoveredV27,
                   invoked, parsed, trezorVars>>

\* The steps of call c after its invocation.
Step(c) ==
    \/ ParseStep(c)
    \/ NormalizeStep(c)
    \/ EncodeStep(c)
    \/ CallRecover(c, 27)
    \/ Resume27(c)
    \/ CallRecover(c, 28)
    \/ Resume28(c)
    \/ Settle(c)

\* ------------------------------------------------------------------------
\* The Trezor provider: createTrezorAccount and the account's signTransaction
\* ------------------------------------------------------------------------

\* An optional value: undefined, or a value.
Undefined == <<>>
Some(x) == <<x>>

\* TrezorConfig: email, appUrl and appName are texts (sequences of
\* characters), derivationPath is optional.
ConfigA ==
    [email |-> <<"a", "@", "x">>, appUrl |-> <<"x", ".", "i", "o">>,
     appName |-> <<"A">>, derivationPath |-> Undefined]
ConfigACustomPath == [ConfigA EXCEPT !.derivationPath = Some("m/44'/60'/0'/0/1")]
ConfigB == [ConfigA EXCEPT !.appName = <<"B">>]
\* An appUrl with a port, and an appName with a colon.
ConfigUrlPort == [ConfigA EXCEPT !.appUrl = <<"x", ".", "i", "o", ":", "8">>]
ConfigNameColon == [ConfigA EXCEPT !.appName = <<"8", ":", "A">>]
TrezorConfigs ==
    {ConfigA, ConfigACustomPath, ConfigB, ConfigUrlPort, ConfigNameColon}

\* `${config.email}:${config.appUrl}:${config.appName}`
getManifestKey(config) ==
    config.email \o <<":">> \o config.appUrl \o <<":">> \o config.appName

\* config.derivationPath ?? "m/44'/60'/0'/0/0"
DefaultPath == "m/44'/60'/0'/0/0"
pathOf(config) ==
    IF config.derivationPath = Undefined THEN DefaultPath
    ELSE config.derivationPath[1]

\* The promise TrezorConnect.init returns: pending, then fulfilled or rejected.
Pending == [state |-> "pending", error |-> <<>>]
Fulfilled == [state |-> "fulfilled", error |-> <<>>]
Rejected(e) == [state |-> "rejected", error |-> e]
InitError == <<"Init failed">>
InitOutcomes == {Fulfilled, Rejected(InitError)}

\* initializationPromises.has(key), and the Map after set(key, promise).
hasKey(m, key) == key \in DOMAIN m
setKey(m, key, promise) ==
    [k \in DOMAIN m \cup {key} |-> IF k = key THEN promise ELSE m[k]]

\* The invocations of TrezorConnect.init per key, after one more for key.
invokeInit(calls, key) ==
    setKey(calls, key, IF hasKey(calls, key) THEN calls[key] + 1 ELSE 1)

\* The errors the provider throws.
ErrChainIdRequired == <<"Trezor: chainId is required for transaction signing">>
TrezorError(e) == <<"Trezor Error: ", e>>
TrezorSignError(e) == <<"Trezor Sign Error: ", e>>

\* What a call of the provider ended with.
NoOutcome == [kind |-> "none", value |-> <<>>]
TzReturn(v) == [kind |-> "return", value |-> v]
TzThrow(msg) == [kind |-> "throw", value |-> msg]

\* value.toString(16), the hex digits of a number.
RECURSIVE toString16(_)
toString16(n) == IF n < 16 THEN <<n>> ELSE toString16(n \div 16) \o <<n % 16>>

\* toHexString(value): "0x0" for undefined, else "0x" and the hex digits.
toHexString(value) ==
    IF value = Undefined THEN <<0>> ELSE toString16(value[1])

\* Faulty variant: a missing chainId is not noticed.
chainIdNeverMissing(transaction) == FALSE

\* transaction.chainId === undefined
chainIdMissing(transaction) == transaction.chainId = Undefined

isEIP1559(transaction) ==
    \/ transaction.maxFeePerGas # Undefined
    \/ transaction.maxPriorityFeePerGas # Undefined

\* The transaction handed to TrezorConnect: baseTransaction and the fee
\* fields of its kind.
Null == "null"
trezorTransaction(transaction) ==
    LET to == IF transaction.to = Undefined THEN Null ELSE transaction.to[1]
        data == IF transaction.data = Undefined THEN "0x" ELSE transaction.data[1]
    IN  IF isEIP1559(transaction)
        THEN [to |-> to,
              value |-> toHexString(transaction.value),
              nonce |-> toHexString(transaction.nonce),
              gasLimit |-> toHexString(transaction.gas),
              data |-> data,
              chainId |-> transaction.chainId,
              maxFeePerGas |-> toHexString(transaction.maxFeePerGas),
              maxPriorityFeePerGas |->
                  toHexString(transaction.maxPriorityFeePerGas)]
        ELSE [to |-> to,
              value |-> toHexString(transaction.value),
              nonce |-> toHexString(transaction.nonce),
              gasLimit |-> toHexString(transaction.gas),
              data |-> data,
              chainId |-> transaction.chainId,
              gasPrice |-> toHexString(transaction.gasPrice)]

\* serializer(transaction, { r, s, v }) with v: BigInt(response.payload.v).
serializer(transaction, payload) ==
    [transaction |-> transaction,
     signature |-> [r |-> payload.r, s |-> payload.s, v |-> hexToBigInt(payload.v)]]

\* The transactions the callers sign: legacy, EIP-1559, a deployment, and two
\* without chainId.
TxLegacy ==
    [to |-> Some("0xRecipient"), value |-> Some(1000), nonce |-> Some(0),
     gas |-> Some(21000), data |-> Undefined, chainId |-> Some(1),
     gasPrice |-> Some(20), maxFeePerGas |-> Undefined,
     maxPriorityFeePerGas |-> Undefined]
Tx1559 ==
    [TxLegacy EXCEPT !.gasPrice = Undefined, !.maxFeePerGas = Some(30),
                     !.maxPriorityFeePerGas = Some(2)]
TxDeploy ==
    [TxLegacy EXCEPT !.to = Undefined, !.value = Undefined,
                     !.data = Some("0x6080")]
TxNoChainId == [TxLegacy EXCEPT !.chainId = Undefined]
Tx1559NoChainId == [Tx1559 EXCEPT !.chainId = Undefined]
Transactions == {TxLegacy, Tx1559, TxDeploy, TxNoChainId, Tx1559NoChainId}

\* The responses of TrezorConnect to ethereumGetAddress and to
\* ethereumSignTransaction.
AddressResponses ==
    {[success |-> TRUE, payload |-> [address |-> AccountAddress]],
     [success |-> FALSE, payload |-> [error |-> "Device disconnected"]]}
SignResponses ==
    {[success |-> TRUE, payload |-> [r |-> "0xr", s |-> "0xs", v |-> <<1, 12>>]],
     [success |-> FALSE, payload |-> [error |-> "Cancelled"]]}

\* Callers of createTrezorAccount.
TrezorCallers == {1, 2}

\* tz[t]: where caller t stands, the config and path of its account, what
\* its ensureInitialized call ended with, what createTrezorAccount ended with,
\* the transaction being signed, the request issued to
\* TrezorConnect.ethereumSignTransaction and what signTransaction ended with.
NoTrezor ==
    [pc |-> "idle", config |-> Undefined, path |-> "", ensured |-> NoOutcome,
     created |-> NoOutcome, transaction |-> Undefined, request |-> Undefined,
     signed |-> NoOutcome]

InitTrezor ==
    /\ initializationPromises = [k \in {} |-> Pending]
    /\ initCalls = [k \in {} |-> 0]
    /\ tz = [t \in TrezorCallers |-> NoTrezor]

kmsVars == <<env, pc, args, rBig, sBig, sParsed, rHex, sHex, recoveredV27,
             recoveredV28, invoked, result, parsed>>

\* Faulty variant: TrezorConnect.init is invoked whether or not the key is in
\* the Map.
needsInitAlways(m, key) == TRUE

\* if (!initializationPromises.has(key))
needsInit(m, key) == ~hasKey(m, key)

\* createTrezorAccount(config) is called: ensureInitialized runs up to its
\* await. A key not yet in the Map has TrezorConnect.init invoked and the
\* promise stored; the call then waits for the promise stored under its key.
CreateTrezorAccount(t, config) ==
    /\ tz[t].pc = "idle"
    /\ LET key == getManifestKey(config)
       IN  IF needsInit(initializationPromises, key)
           THEN /\ initializationPromises' =
                       setKey(initializationPromises, key, Pending)
                /\ initCalls' = invokeInit(initCalls, key)
           ELSE UNCHANGED <<initializationPromises, initCalls>>
    /\ tz' = [tz EXCEPT ![t] = [NoTrezor EXCEPT !.pc = "awaitInit",
                                               !.config = Some(config)]]
    /\ UNCHANGED kmsVars

\* TrezorConnect settles the promise of an init: it resolves or rejects.
InitSettles(key, outcome) ==
    /\ hasKey(initializationPromises, key)
    /\ initializationPromises[key] = Pending
    /\ initializationPromises' = [initializationPromises EXCEPT ![key] = outcome]
    /\ UNCHANGED <<initCalls, tz, kmsVars>>

\* Faulty variant: after a rejection the init is tried again and its promise
\* replaces the rejected one.
ResumeInitRetrying(t) ==
    /\ tz[t].pc = "awaitInit"
    /\ LET key == getManifestKey(tz[t].config[1])
           promise == initializationPromises[key]
       IN  /\ promise # Pending
           /\ IF promise.state = "rejected"
              THEN /\ initializationPromises' =
                          setKey(initializationPromises, key, Pending)
                   /\ initCalls' = invokeInit(initCalls, key)
                   /\ UNCHANGED tz
              ELSE /\ tz' = [tz EXCEPT ![t].pc = "awaitEnsure",
                                       ![t].ensured = TzReturn(Undefined)]
                   /\ UNCHANGED <<initializationPromises, initCalls>>
    /\ UNCHANGED kmsVars

\* ensureInitialized resumes from the await of the promise stored under its
\* key and ends: with the error of a rejected init, or with nothing. The
\* createTrezorAccount that awaits it resumes in a later turn, so the steps of
\* other callers can run in between.
ResumeInit(t) ==
    /\ tz[t].pc = "awaitInit"
    /\ LET promise == initializationPromises[getManifestKey(tz[t].config[1])]
       IN  /\ promise # Pending
           /\ IF promise.state = "rejected"
              THEN tz' = [tz EXCEPT ![t].pc = "awaitEnsure",
                                    ![t].ensured = TzThrow(promise.error)]
              ELSE tz' = [tz EXCEPT ![t].pc = "awaitEnsure",
                                    ![t].ensured = TzReturn(Undefined)]
    /\ UNCHANGED <<initializationPromises, initCalls, kmsVars>>

\* createTrezorAccount resumes from the await of ensureInitialized. A
\* rejection leaves createTrezorAccount with the error of the init; otherwise
\* the path is fixed and TrezorConnect.ethereumGetAddress is requested.
ResumeCreate(t) ==
    /\ tz[t].pc = "awaitEnsure"
    /\ IF tz[t].ensured.kind = "throw"
       THEN tz' = [tz EXCEPT ![t].pc = "failed",
                             ![t].created = tz[t].ensured]
       ELSE tz' = [tz EXCEPT ![t].pc = "awaitAddress",
                             ![t].path = pathOf(tz[t].config[1])]
    /\ UNCHANGED <<initializationPromises, initCalls, kmsVars>>

\* ethereumGetAddress answers: a failure is thrown as Trezor Error, a success
\* gives the account with its address.
ResumeAddress(t, res) ==
    /\ tz[t].pc = "awaitAddress"
    /\ IF ~res.success
       THEN tz' = [tz EXCEPT ![t].pc = "failed",
                             ![t].created = TzThrow(TrezorError(res.payload.error))]
       ELSE tz' = [tz EXCEPT ![t].pc = "ready",
                             ![t].created = TzReturn(res.payload.address)]
    /\ UNCHANGED <<initializationPromises, initCalls, kmsVars>>

\* The caller has taken the error of createTrezorAccount, or drops the account.
Dispose(t) ==
    /\ tz[t].pc \in {"failed", "ready"}
    /\ tz' = [tz EXCEPT ![t] = NoTrezor]
    /\ UNCHANGED <<initializationPromises, initCalls, kmsVars>>

\* account.signTransaction(transaction): without chainId it throws; otherwise
\* the Trezor transaction is built and ethereumSignTransaction is requested.
SignTransaction(t, transaction) ==
    /\ tz[t].pc = "ready"
    /\ IF chainIdMissing(transaction)
       THEN tz' = [tz EXCEPT ![t].pc = "signed",
                             ![t].transaction = Some(transaction),
                             ![t].signed = TzThrow(ErrChainIdRequired)]
       ELSE tz' = [tz EXCEPT ![t].pc = "awaitSign",
                             ![t].transaction = Some(transaction),
                             ![t].request =
                                 Some([path |-> tz[t].path,
                                       transaction |->
                                           trezorTransaction(transaction)])]
    /\ UNCHANGED <<initializationPromises, initCalls, kmsVars>>

\* ethereumSignTransaction answers: a failure is thrown as Trezor Sign Error, a
\* success is serialized with the transaction.
ResumeSign(t, response) ==
    /\ tz[t].pc = "awaitSign"
    /\ tz' = [tz EXCEPT
                ![t].pc = "signed",
                ![t].signed =
                    IF ~response.success
                    THEN TzThrow(TrezorSignError(response.payload.error))
                    ELSE TzReturn(serializer(tz[t].transaction[1],
                                             response.payload))]
    /\ UNCHANGED <<initializationPromises, initCalls, kmsVars>>

\* The caller has taken what signTransaction ended with.
SignSettle(t) ==
    /\ tz[t].pc = "signed"
    /\ tz' = [tz EXCEPT ![t].pc = "ready",
                        ![t].transaction = Undefined,
                        ![t].request = Undefined,
                        ![t].signed = NoOutcome]
    /\ UNCHANGED <<initializationPromises, initCalls, kmsVars>>

\* No signature is normalized while the Trezor provider is exercised.
InitTrezorAlone ==
    /\ env = [v \in {27, 28} |-> RecoverThrows]
    /\ InitCalls
    /\ InitTrezor

NextTrezor ==
    \/ \E t \in TrezorCallers, config \in TrezorConfigs :
          CreateTrezorAccount(t, config)
    \/ \E config \in TrezorConfigs, outcome \in InitOutcomes :
          InitSettles(getManifestKey(config), outcome)
    \/ \E t \in TrezorCallers :
          \/ ResumeInit(t)
          \/ ResumeCreate(t)
          \/ \E res \in AddressResponses : ResumeAddress(t, res)
          \/ Dispose(t)
          \/ \E transaction \in Transactions : SignTransaction(t, transaction)
          \/ \E response \in SignResponses : ResumeSign(t, response)
          \/ SignSettle(t)

SpecTrezor == InitTrezorAlone /\ [][NextTrezor]_vars

\* ------------------------------------------------------------------------
\* Inputs of the calls
\* ------------------------------------------------------------------------

\* N - 1, N + 1 and halfN + 1 (N is odd: N - halfN = halfN + 1).
CurveNMinusOne == BigSub(CURVE_N, BigOne)
CurveNPlusOne == Big([CURVE_N.mag EXCEPT ![WordSize] = @ + 1])
halfNPlusOne == BigSub(CURVE_N, halfN)

\* The r and s values the signatures of the model are made of: the known
\* signatures, their mirrored s, and the values around 0, N/2, N and 2^256.
RValues == {SigR1, SigR2, BigZero, BigMaxWord, BigOverWord}
SValues ==
    {SigS1, BigSub(CURVE_N, SigS1), SigS2, BigSub(CURVE_N, SigS2),
     BigZero, BigOne, halfN, halfNPlusOne, CurveNMinusOne, CURVE_N,
     CurveNPlusOne, BigMaxWord, BigOverWord}

\* The tests' malformed buffers, the empty buffer, two zero-length INTEGERs.
MalformedDers ==
    {<<0, 2, 1, 1>>, <<48, 4, 0, 1, 1, 1>>, <<>>, <<48, 4, 2, 0, 2, 0>>}

CallDers ==
    {createDerSignature(r, s) : r \in RValues, s \in SValues} \cup MalformedDers

\* expectedAddress as the callers give it: checksummed, lower case, upper case
\* (account.address.toUpperCase()), and an address that matches nothing.
ExpectedAddresses ==
    {AccountAddress, toLowerCase(AccountAddress), toUpperCase(AccountAddress),
     WrongAddress}

\* One caller: calls follow one another.
Init == env \in Environments /\ InitCalls /\ InitTrezor

Next ==
    \E c \in SingleCaller :
        \/ \E der \in CallDers, digest \in Digests, a \in ExpectedAddresses :
              Invoke(c, der, digest, a)
        \/ Step(c)

Spec == Init /\ [][Next]_vars

\* ------------------------------------------------------------------------
\* The decoder called alone
\* ------------------------------------------------------------------------

\* parseDerSignature(der) is called on a buffer of the given origin.
Decode(der, origin) ==
    /\ ~parsed.called
    /\ LET p == parseDerSignature(der)
       IN  parsed' = [called |-> TRUE, der |-> der, origin |-> origin,
                      ok |-> p.ok,
                      err |-> IF p.ok THEN "" ELSE p.err,
                      r |-> IF p.ok THEN p.r ELSE BigZero,
                      s |-> IF p.ok THEN p.s ELSE BigZero]
    /\ UNCHANGED <<callVars, trezorVars>>

\* Minimal DER with long-form lengths where the content needs them.
derLength(n) ==
    IF n < 128 THEN <<n>>
    ELSE IF n < 256 THEN <<129, n>>
    ELSE <<130, n \div 256, n % 256>>
derInteger(m) ==
    LET content == derPadded(IF m = <<>> THEN <<0>> ELSE m)
    IN  <<IntegerTag>> \o derLength(Len(content)) \o content
derSignature(r, s) ==
    LET body == derInteger(r.mag) \o derInteger(s.mag)
    IN  <<SequenceTag>> \o derLength(Len(body)) \o body

\* A 64-byte and a 128-byte value: their encodings need long-form lengths.
BigLong64 == Big([i \in 1..64 |-> i])
BigLong128 == Big([i \in 1..128 |-> 255 - i])
LongPairs == {<<BigLong64, BigLong64>>, <<BigLong128, BigLong64>>,
              <<BigOne, BigLong128>>}

\* Every buffer of at most MaxDerLen bytes over DerAlphabet.
MaxDerLen == 4
DerAlphabet == {0, 1, IntegerTag, SequenceTag, 129, 132, 255}
ByteStrings == UNION {[1..k -> DerAlphabet] : k \in 0..MaxDerLen}

\* Well-formed signatures with one byte replaced.
Corrupted(der) ==
    {[der EXCEPT ![i] = b] : i \in 1..Len(der), b \in DerAlphabet}
CorruptedDers ==
    Corrupted(createDerSignature(SigR1, SigS1))
        \cup Corrupted(createDerSignature(SigR2, BigSub(CURVE_N, SigS2)))

\* Lengths of four bytes: 2^31 - 1, -1, -16 and -2^31 as 32-bit integers.
WideLengthDers ==
    {<<48, 0, 2, 132, 127, 255, 255, 255, 2, 1, 2>>,
     <<48, 0, 2, 132, 255, 255, 255, 255, 2, 1, 2>>,
     <<48, 0, 2, 1, 5, 2, 132, 255, 255, 255, 240>> \o [i \in 1..21 |-> i],
     <<48, 0, 2, 1, 5, 2, 132, 128, 0, 0, 0, 7>>,
     <<48, 0, 2, 132, 255, 255, 255, 240>> \o [i \in 1..12 |-> i]}

RawDers == ByteStrings \cup CorruptedDers \cup MalformedDers \cup WideLengthDers

Prefix(der, k) == SubSeq(der, 1, k)
EncodedOrigin(der, rv, sv, n) ==
    [kind |-> "encoded", whole |-> der, r |-> rv, s |-> sv, k |-> n]

\* The decoder on plain bytes.
DecodeBytes ==
    \E der \in RawDers : Decode(der, NoOrigin)

\* The signatures as the tests encode them, and those with long-form lengths.
SignatureCases ==
    {[der |-> createDerSignature(rv, sv), r |-> rv, s |-> sv] :
        rv \in RValues, sv \in SValues}
LongSignatureCases ==
    {[der |-> derSignature(p[1], p[2]), r |-> p[1], s |-> p[2]] : p \in LongPairs}

\* The decoder on the first k bytes of createDerSignature(r, s).
DecodeSignature ==
    \E e \in SignatureCases :
        \E k \in 0..Len(e.der) :
            Decode(Prefix(e.der, k), EncodedOrigin(e.der, e.r, e.s, k))

\* The decoder on the first k bytes of a signature with long-form lengths.
DecodeLongSignature ==
    \E e \in LongSignatureCases :
        \E k \in 0..Len(e.der) :
            Decode(Prefix(e.der, k), EncodedOrigin(e.der, e.r, e.s, k))

\* Bytes appended after the second INTEGER: one or two bytes of DerAlphabet.
Tails == UNION {[1..k -> DerAlphabet] : k \in {1, 2}}

\* der with another value in its SEQUENCE length: another short-form length
\* byte, or other values in the long-form length bytes that are skipped.
SequenceLengthVariants(der) ==
    IF der[2] < 128
    THEN {[der EXCEPT ![2] = b] : b \in {0, 1, IntegerTag, SequenceTag, 127}}
    ELSE {[der EXCEPT ![i] = b] : i \in 3..(2 + (der[2] % 128)), b \in DerAlphabet}

\* The buffers that decode, among the encoded signatures and the buffers with
\* lengths of four bytes, each with what it decodes to.
DecodableBuffers ==
    LET ders == {e.der : e \in SignatureCases \cup LongSignatureCases}
                    \cup WideLengthDers
    IN  {[der |-> d, r |-> parseDerSignature(d).r, s |-> parseDerSignature(d).s] :
            d \in {x \in ders : parseDerSignature(x).ok}}

\* A decodable buffer with bytes appended or its SEQUENCE length changed.
VariantOrigin(e) ==
    [kind |-> "variant", whole |-> e.der, r |-> e.r, s |-> e.s, k |-> Len(e.der)]
VariantCases ==
    UNION {{[der |-> v, origin |-> VariantOrigin(e)] :
                v \in {e.der \o tail : tail \in Tails}
                        \cup SequenceLengthVariants(e.der)} :
           e \in DecodableBuffers}

\* The decoder on a variant of a buffer that decodes.
DecodeVariant ==
    \E e \in VariantCases : Decode(e.der, e.origin)

\* The caller has taken the decoder's result.
DecodeReturn ==
    /\ parsed.called
    /\ parsed' = NoParse
    /\ UNCHANGED <<callVars, trezorVars>>

\* No recovery takes place when the decoder is called alone.
InitDer == env = [v \in {27, 28} |-> RecoverThrows] /\ InitCalls /\ InitTrezor

NextDer ==
    \/ DecodeBytes
    \/ DecodeSignature
    \/ DecodeLongSignature
    \/ DecodeVariant
    \/ DecodeReturn

SpecDer == InitDer /\ [][NextDer]_vars

\* ------------------------------------------------------------------------
\* Concurrent callers
\* ------------------------------------------------------------------------

ConcDers ==
    {createDerSignature(SigR2, SigS2),
     createDerSignature(SigR2, BigSub(CURVE_N, SigS2)),
     createDerSignature(SigR1, SigS1),
     <<0, 2, 1, 1>>}

NextConc ==
    \E c \in Calls :
        \/ \E der \in ConcDers, a \in ExpectedAddresses :
              Invoke(c, der, DigestB, a)
        \/ Step(c)

SpecConc == Init /\ [][NextConc]_vars

\* ------------------------------------------------------------------------
\* Properties
\* ------------------------------------------------------------------------

Done(c) == pc[c] = "done"
ReturnedOk(c) == Done(c) /\ result[c].kind = "return"
Threw(c) == Done(c) /\ result[c].kind = "throw"

\* Two address texts that differ at most in letter case.
SameAddressIgnoringCase(a, b) == toLowerCase(a) = toLowerCase(b)

\* The DER encodings a signer of KnownSignatures may hand out for a digest:
\* (r, s) and the mirrored (r, N - s).
KnownSignedDers ==
    UNION {{[hash |-> k.hash, der |-> createDerSignature(k.r, k.s)],
            [hash |-> k.hash, der |-> createDerSignature(k.r, BigSub(CURVE_N, k.s))]} :
           k \in KnownSignatures}

\* C1: a returned triple has v in {27, 28} and the recovery primitive applied to
\* (digest, r, s, v) of the result yields expectedAddress up to letter case; and
\* a call on the DER encoding of a known signature over the digest, with the
\* signer's address, returns instead of failing.
C1_ReturnedTripleRecovers ==
    \A c \in Calls :
        /\ ReturnedOk(c) =>
              /\ result[c].v \in {27, 28}
              /\ LET rec == recoverAddress(env, args[c].digest, result[c].r,
                                           result[c].s, result[c].v)
                 IN  rec.ok /\ SameAddressIgnoringCase(rec.val, args[c].expectedAddress)
        /\ ( /\ Done(c)
             /\ [hash |-> args[c].digest, der |-> args[c].der] \in KnownSignedDers
             /\ SameAddressIgnoringCase(args[c].expectedAddress, AccountAddress) )
           => ReturnedOk(c)

\* A known signature handed out with the mirrored (high) s, called with the
\* upper-case address, has returned v = 28.
MirroredDerB == createDerSignature(SigR2, BigSub(CURVE_N, SigS2))
C1_Witness ==
    \E c \in Calls :
        /\ ReturnedOk(c)
        /\ result[c].v = 28
        /\ args[c].digest = DigestB
        /\ args[c].der = MirroredDerB
        /\ args[c].expectedAddress = toUpperCase(AccountAddress)

\* C2: the s of every returned triple is in low-S form, s <= N / 2.
C2_ReturnedSIsLow ==
    \A c \in Calls :
        ReturnedOk(c) => ~BigGreater(hexToBigInt(result[c].s), halfN)

\* A call whose DER carried a high s has returned.
C2_Witness ==
    \E c \in Calls :
        /\ ReturnedOk(c)
        /\ BigGreater(sParsed[c], halfN)
        /\ hexToBigInt(result[c].s) = BigSub(CURVE_N, sParsed[c])

\* The normalization step of call c has run.
Normalized(c) == pc[c] \in {"encode", "call27", "await27", "call28", "await28"}

\* C3: the normalization maps every s with N/2 < s < N to N - s, which is
\* <= N/2, and leaves every s with 0 <= s <= N/2 unchanged.
C3_NormalizationRule ==
    \A c \in Calls :
        Normalized(c) =>
            /\ (BigGreater(sParsed[c], halfN) /\ BigGreater(CURVE_N, sParsed[c]))
                  => /\ sBig[c] = BigSub(CURVE_N, sParsed[c])
                     /\ ~BigGreater(sBig[c], halfN)
            /\ ~BigGreater(sParsed[c], halfN) => sBig[c] = sParsed[c]

\* s = halfN + 1, the smallest high s, has been normalized to halfN.
C3_Witness ==
    \E c \in Calls :
        /\ Normalized(c)
        /\ sParsed[c] = halfNPlusOne
        /\ sBig[c] = halfN

\* C4: the normalization is idempotent: for every s with 0 <= s < N, normalizing
\* the normalized s again changes nothing.
C4_NormalizationIdempotent ==
    \A c \in Calls :
        (Normalized(c) /\ BigGreater(CURVE_N, sParsed[c]))
            => normalizeS(sBig[c]) = sBig[c]

\* A high s below N has been normalized to another value.
C4_Witness ==
    \E c \in Calls :
        /\ Normalized(c)
        /\ BigGreater(CURVE_N, sParsed[c])
        /\ BigGreater(sParsed[c], halfN)
        /\ sBig[c] # sParsed[c]

\* The decoder was called on the whole encoding of a pair (r, s).
DecodedWhole ==
    /\ parsed.called
    /\ parsed.origin.kind = "encoded"
    /\ parsed.origin.k = Len(parsed.origin.whole)

\* The decoder was called on a proper prefix of the encoding of a pair (r, s).
DecodedPrefix ==
    /\ parsed.called
    /\ parsed.origin.kind = "encoded"
    /\ parsed.origin.k < Len(parsed.origin.whole)

\* C5: round trip: the decoder returns exactly the (r, s) that a minimal DER
\* encoding was made of; a pad byte adds nothing to the value.
C5_RoundTrip ==
    DecodedWhole =>
        /\ parsed.ok
        /\ parsed.r = parsed.origin.r
        /\ parsed.s = parsed.origin.s

\* The encoding of an r without and an s with a pad byte has been decoded.
C5_Witness ==
    /\ DecodedWhole
    /\ parsed.ok
    /\ parsed.origin.r = SigR2
    /\ parsed.origin.s = BigSub(CURVE_N, SigS1)
    /\ parsed.der[4] = 31
    /\ parsed.der[37] = 33

\* C6: decoding returns a ParsedSignature or fails with one of the five
\* documented Invalid DER errors, on every buffer.
C6_DecodeOutcomes ==
    parsed.called => (parsed.ok \/ parsed.err \in DerErrors)

\* The 0-based position of the r INTEGER's tag: after the SEQUENCE tag, the
\* length byte and the length bytes a long form announces.
RTagPosition(der) == 2 + (IF der[2] >= 128 THEN der[2] % 128 ELSE 0)

\* C7: a non-empty buffer whose first byte is not 0x30 fails with Missing
\* Sequence; a buffer whose byte at the position of the r or of the s INTEGER tag
\* is present and not 0x02 fails with Missing Integer.
C7_WrongTag ==
    parsed.called =>
        LET der == parsed.der
        IN  /\ (Len(der) > 0 /\ der[1] # 48)
                  => (~parsed.ok /\ parsed.err = ErrMissingSequence)
            /\ (Len(der) >= 2 /\ der[1] = 48 /\ RTagPosition(der) < Len(der))
                  => LET rpos == RTagPosition(der)
                     IN  IF der[rpos + 1] # 2
                         THEN ~parsed.ok /\ parsed.err = ErrMissingInteger
                         ELSE LET rInt == readInt(der, rpos)
                              IN  ( /\ rInt.ok
                                    /\ rInt.off >= 0
                                    /\ rInt.off < Len(der)
                                    /\ der[rInt.off + 1] # 2 )
                                  => (~parsed.ok /\ parsed.err = ErrMissingInteger)

\* A buffer with a sound r INTEGER and a wrong tag where the s INTEGER starts
\* has failed with Missing Integer.
C7_Witness ==
    /\ parsed.called
    /\ Len(parsed.der) > 40
    /\ parsed.der[1] = 48
    /\ parsed.der[3] = 2
    /\ parsed.der[4] = 33
    /\ parsed.der[38] = 255
    /\ parsed.err = ErrMissingInteger

\* The layout of a well-formed DER element whose length field starts at the
\* 1-based index p of der: the size of the length field and the content length.
LengthFieldSize(der, p) == IF der[p] < 128 THEN 1 ELSE 1 + (der[p] % 128)
ContentLength(der, p) ==
    IF der[p] < 128 THEN der[p]
    ELSE IF der[p] % 128 = 1 THEN der[p + 1]
    ELSE der[p + 1] * 256 + der[p + 2]

\* The error the first k bytes of the well-formed signature whole fail with:
\* Unexpected end where a tag or a length byte is missing, Length out of bounds
\* inside the long-form length bytes of the SEQUENCE, Integer out of bounds
\* inside the content of an INTEGER.
PrefixError(whole, k) ==
    LET seqEnd == 1 + LengthFieldSize(whole, 2)
        rLenEnd == seqEnd + 1 + LengthFieldSize(whole, seqEnd + 2)
        rEnd == rLenEnd + ContentLength(whole, seqEnd + 2)
        sLenEnd == rEnd + 1 + LengthFieldSize(whole, rEnd + 2)
    IN  IF k < 2 THEN ErrUnexpectedEnd
        ELSE IF k < seqEnd THEN ErrLengthOutOfBounds
        ELSE IF k < rLenEnd THEN ErrUnexpectedEnd
        ELSE IF k < rEnd THEN ErrIntegerOutOfBounds
        ELSE IF k < sLenEnd THEN ErrUnexpectedEnd
        ELSE ErrIntegerOutOfBounds

\* C8, as amended: every proper prefix of a well-formed two-integer DER
\* signature fails to decode, with Unexpected end of data when it ends where a
\* tag or length byte is to be read, with Integer out of bounds when it ends
\* inside the content of an INTEGER, and with Length out of bounds when it ends
\* inside the long-form length bytes of the SEQUENCE header.
C8_PrefixFails ==
    DecodedPrefix =>
        /\ ~parsed.ok
        /\ parsed.err = PrefixError(parsed.origin.whole, parsed.origin.k)

\* A signature cut inside the content of its s INTEGER has failed with Integer
\* out of bounds.
C8_Witness ==
    /\ DecodedPrefix
    /\ parsed.origin.r = SigR1
    /\ parsed.origin.s = SigS1
    /\ parsed.origin.k = 50
    /\ parsed.err = ErrIntegerOutOfBounds

\* C8, as stated: every proper prefix of a well-formed two-integer DER signature
\* fails with Unexpected end of data.
C8_PrefixUnexpectedEnd ==
    DecodedPrefix => (~parsed.ok /\ parsed.err = ErrUnexpectedEnd)

\* Both recovery attempts of call c have completed, with these addresses, and
\* neither is the expected address.
BothMismatch(c, a27, a28) ==
    /\ Done(c)
    /\ invoked[c] = <<27, 28>>
    /\ a27.ok
    /\ a28.ok
    /\ ~SameAddressIgnoringCase(a27.val, args[c].expectedAddress)
    /\ ~SameAddressIgnoringCase(a28.val, args[c].expectedAddress)

\* C9: when the DER input decodes and both recoveries complete with addresses
\* other than expectedAddress, the call fails with KMS Signature Recovery
\* Failed, carrying the expected address and the addresses recovered at 27 and
\* at 28, and returns no triple.
C9_RecoveryFailure ==
    \A c \in Calls :
        LET a27 == recoverAddress(env, args[c].digest, rHex[c], sHex[c], 27)
            a28 == recoverAddress(env, args[c].digest, rHex[c], sHex[c], 28)
        IN  BothMismatch(c, a27, a28) =>
                /\ result[c].kind = "throw"
                /\ result[c].err.message = ErrRecoveryFailed
                /\ result[c].err.expected = args[c].expectedAddress
                /\ result[c].err.got27 = a27.val
                /\ result[c].err.got28 = a28.val
                /\ result[c].r = <<>> /\ result[c].s = <<>>

\* A call with the tests' wrong address has failed after recovering two
\* different addresses.
C9_Witness ==
    \E c \in Calls :
        /\ Threw(c)
        /\ args[c].expectedAddress = WrongAddress
        /\ result[c].err.message = ErrRecoveryFailed
        /\ result[c].err.got27 = AccountAddress
        /\ result[c].err.got28 = OtherAddress

\* Calls c and d have the same der and digest and expected addresses that
\* differ only in letter case.
SameCallUpToCase(c, d) ==
    /\ args[c].der = args[d].der
    /\ args[c].digest = args[d].digest
    /\ SameAddressIgnoringCase(args[c].expectedAddress, args[d].expectedAddress)

\* C10: two calls with the same der and digest whose expected addresses differ
\* only in letter case both return the same (r, s, v) or both fail.
C10_CaseInsensitive ==
    \A c, d \in Calls :
        (Done(c) /\ Done(d) /\ SameCallUpToCase(c, d)) =>
            /\ result[c].kind = result[d].kind
            /\ ReturnedOk(c) =>
                  /\ result[c].r = result[d].r
                  /\ result[c].s = result[d].s
                  /\ result[c].v = result[d].v

\* Two calls, one with the upper-case and one with the lower-case address,
\* have both returned.
C10_Witness ==
    \E c, d \in Calls :
        /\ ReturnedOk(c) /\ ReturnedOk(d)
        /\ SameCallUpToCase(c, d)
        /\ args[c].expectedAddress = toUpperCase(AccountAddress)
        /\ args[d].expectedAddress = toLowerCase(AccountAddress)
        /\ result[c].v = 28


\* What the recovery primitive yields for the r and s of call c at v.
RecoveryAt(c, v) == recoverAddress(env, args[c].digest, rHex[c], sHex[c], v)

\* The recovery at v yields the expected address of call c, up to letter case.
MatchesAt(c, v) ==
    /\ RecoveryAt(c, v).ok
    /\ SameAddressIgnoringCase(RecoveryAt(c, v).val, args[c].expectedAddress)

\* C11: whenever the address recovered at v = 27 equals expectedAddress the call
\* returns v = 27, also when the address recovered at 28 equals it too; v = 28 is
\* returned only when the recovery at 27 mismatched and the one at 28 matched.
C11_TieBreak ==
    \A c \in Calls :
        /\ (Done(c) /\ invoked[c] # <<>> /\ MatchesAt(c, 27))
              => (ReturnedOk(c) /\ result[c].v = 27)
        /\ (ReturnedOk(c) /\ result[c].v = 28)
              => /\ RecoveryAt(c, 27).ok
                 /\ ~MatchesAt(c, 27)
                 /\ MatchesAt(c, 28)

\* Both recovery identifiers recover the expected address, and the call has
\* returned v = 27.
C11_Witness ==
    \E c \in Calls :
        /\ ReturnedOk(c)
        /\ result[c].v = 27
        /\ MatchesAt(c, 27)
        /\ MatchesAt(c, 28)


\* C12: within one call the recovery primitive is invoked for v = 28 only after
\* the invocation for v = 27 has completed and mismatched; when 27 matches it is
\* never invoked for 28; it is invoked at most twice, in the order 27, 28.
C12_Sequenced ==
    \A c \in Calls :
        /\ invoked[c] \in {<<>>, <<27>>, <<27, 28>>}
        /\ pc[c] = "await27" => invoked[c] = <<27>>
        /\ invoked[c] = <<27, 28>>
              => /\ recoveredV27[c] # <<>>
                 /\ recoveredV27[c] = RecoveryAt(c, 27).val
                 /\ ~MatchesAt(c, 27)
        /\ (Done(c) /\ invoked[c] # <<>> /\ MatchesAt(c, 27))
              => invoked[c] = <<27>>

\* The recovery at 27 has completed with another address and the recovery at
\* 28 is in flight.
C12_Witness ==
    \E c \in Calls :
        /\ pc[c] = "await28"
        /\ invoked[c] = <<27, 28>>
        /\ recoveredV27[c] = OtherAddress
        /\ args[c].expectedAddress = AccountAddress


\* Call c is under way or has ended, on a buffer the decoder rejects.
CalledOnMalformed(c) ==
    /\ pc[c] \notin {"idle", "parse"}
    /\ ~parseDerSignature(args[c].der).ok

\* C13: on a malformed DER input the call fails with the decoder's error and
\* the recovery primitive is never invoked in that call.
C13_MalformedNoRecovery ==
    \A c \in Calls :
        CalledOnMalformed(c) =>
            /\ Threw(c)
            /\ result[c].err.message = parseDerSignature(args[c].der).err
            /\ invoked[c] = <<>>

\* The tests' buffer without a SEQUENCE tag has failed with Missing Sequence.
C13_Witness ==
    \E c \in Calls :
        /\ Threw(c)
        /\ args[c].der = <<0, 2, 1, 1>>
        /\ result[c].err.message = ErrMissingSequence
        /\ invoked[c] = <<>>


\* Call c has failed with the error err of the recovery primitive and has
\* invoked the primitive exactly for the identifiers of attempts.
FailedWithRecoveryError(c, err, attempts) ==
    /\ Threw(c)
    /\ result[c].err.message = err
    /\ result[c].err.message # ErrRecoveryFailed
    /\ result[c].r = <<>> /\ result[c].s = <<>>
    /\ invoked[c] = attempts

\* C14: an exception of the recovery primitive, at v = 27 or at v = 28 after a
\* mismatch at 27, ends the call with that error, not with KMS Signature
\* Recovery Failed, without a triple and without a further recovery attempt.
C14_RecoveryErrorPropagates ==
    \A c \in Calls :
        (Done(c) /\ invoked[c] # <<>>) =>
            /\ ~RecoveryAt(c, 27).ok
                  => FailedWithRecoveryError(c, RecoveryAt(c, 27).err, <<27>>)
            /\ (RecoveryAt(c, 27).ok /\ ~MatchesAt(c, 27) /\ ~RecoveryAt(c, 28).ok)
                  => FailedWithRecoveryError(c, RecoveryAt(c, 28).err, <<27, 28>>)

\* The recovery at 27 gave another address, the recovery at 28 threw, and the
\* call has failed with the primitive's error.
C14_Witness ==
    \E c \in Calls :
        /\ Threw(c)
        /\ invoked[c] = <<27, 28>>
        /\ recoveredV27[c] = OtherAddress
        /\ result[c].err.message = ErrRecover


\* The digits of a hex word: 2 * WordSize of them.
IsWord(hex) == Len(hex) = 2 * WordSize

\* C15: on every return r and s are 32-byte big-endian words, 64 hex digits
\* padded with zeros on the left, whatever the lengths of the DER integers; r
\* has the value of the decoded r and s the value of the normalized decoded s.
C15_FixedWidthWords ==
    \A c \in Calls :
        ReturnedOk(c) =>
            LET p == parseDerSignature(args[c].der)
            IN  /\ p.ok
                /\ IsWord(result[c].r)
                /\ IsWord(result[c].s)
                /\ hexToBigInt(result[c].r) = p.r
                /\ hexToBigInt(result[c].s) = normalizeS(p.s)

\* A call whose DER carried a 31-byte r and a 32-byte s has returned words of
\* 64 digits, the r word starting with two zero digits.
C15_Witness ==
    \E c \in Calls :
        /\ ReturnedOk(c)
        /\ args[c].der = MirroredDerB
        /\ args[c].der[4] = 31
        /\ args[c].der[37] = 32
        /\ IsWord(result[c].r)
        /\ result[c].r[1] = 0 /\ result[c].r[2] = 0 /\ result[c].r[3] # 0


\* The recovery part of normalizeKmsSignature run without interruption: the
\* attempt at 27, then the attempt at 28.
recoverV(e, digest, expectedAddress, r, s) ==
    LET a27 == recoverAddress(e, digest, r, s, 27)
        a28 == recoverAddress(e, digest, r, s, 28)
    IN  IF ~a27.ok THEN Thrown(a27.err)
        ELSE IF addressMatches(a27.val, expectedAddress) THEN Returned(r, s, 27)
        ELSE IF ~a28.ok THEN Thrown(a28.err)
        ELSE IF addressMatches(a28.val, expectedAddress) THEN Returned(r, s, 28)
        ELSE RecoveryFailure(expectedAddress, a27.val, a28.val)

\* normalizeKmsSignature(der, digest, expectedAddress) run alone, from its
\* first statement to its return or throw, in environment e.
normalizeKmsSignature(e, der, digest, expectedAddress) ==
    LET p == parseDerSignature(der)
    IN  IF ~p.ok THEN Thrown(p.err)
        ELSE LET r == toWord(p.r)
                 s == toWord(normalizeS(p.s))
             IN  IF ~r.ok THEN Thrown(r.err)
                 ELSE IF ~s.ok THEN Thrown(s.err)
                 ELSE recoverV(e, digest, expectedAddress, r.val, s.val)

\* C16: whatever the interleaving of the calls at their awaits, the outcome of
\* each call, a triple or an error, is the outcome the call has when it runs
\* alone on the same arguments; nothing of an earlier or a concurrent call
\* reaches it.
C16_NoInterference ==
    \A c \in Calls :
        Done(c) =>
            result[c] = normalizeKmsSignature(env, args[c].der, args[c].digest,
                                              args[c].expectedAddress)

\* Two calls on different signatures were suspended at their awaits at the
\* same time; one has returned while the other is still waiting.
C16_Witness ==
    \E c, d \in Calls :
        /\ ReturnedOk(c)
        /\ args[c].der = MirroredDerB
        /\ pc[d] = "await28"
        /\ args[d].der = createDerSignature(SigR1, SigS1)


\* A non-negative value below 2^256: at most WordSize bytes.
WithinWordWidth(b) == ~b.neg /\ Len(b.mag) <= WordSize

\* C17: every ParsedSignature the decoder produces has 0 <= r < 2^256 and
\* 0 <= s < 2^256.
C17_DecodedWithinWidth ==
    (parsed.called /\ parsed.ok) =>
        (WithinWordWidth(parsed.r) /\ WithinWordWidth(parsed.s))


\* The value of at most three bytes, big-endian.
BytesValue(b) ==
    IF Len(b) = 0 THEN 0
    ELSE IF Len(b) = 1 THEN b[1]
    ELSE IF Len(b) = 2 THEN b[1] * 256 + b[2]
    ELSE b[1] * 65536 + b[2] * 256 + b[3]

\* The header of the INTEGER whose tag is at the 0-based position pos of der is
\* complete: the tag 0x02, the length byte and the length bytes it announces.
IntegerHeaderAt(der, pos) ==
    /\ pos >= 0
    /\ pos + 1 < Len(der)
    /\ der[pos + 1] = 2
    /\ der[pos + 2] >= 128 => pos + 2 + (der[pos + 2] % 128) <= Len(der)

\* The bytes that declare the content length of that INTEGER, without leading
\* zeros, and the 0-based position of its content.
DeclaredLengthBytes(der, pos) ==
    IF der[pos + 2] < 128 THEN Strip(<<der[pos + 2]>>)
    ELSE Strip(SubSeq(der, pos + 3, pos + 2 + (der[pos + 2] % 128)))
ContentStart(der, pos) ==
    pos + 2 + (IF der[pos + 2] < 128 THEN 0 ELSE der[pos + 2] % 128)

\* The declared length against the number of bytes left for the content (a
\* length of four bytes or more exceeds every buffer here).
DeclaredExceedsRemaining(der, pos) ==
    LET b == DeclaredLengthBytes(der, pos)
    IN  Len(b) > 3 \/ BytesValue(b) > Len(der) - ContentStart(der, pos)
DeclaredEqualsRemaining(der, pos) ==
    LET b == DeclaredLengthBytes(der, pos)
    IN  Len(b) <= 3 /\ BytesValue(b) = Len(der) - ContentStart(der, pos)

\* C19: when the declared content length of an INTEGER exceeds the bytes that
\* remain after its length field, decoding fails with Integer out of bounds;
\* when exactly enough bytes remain the integer is read (stated for the r
\* INTEGER: once it is read, the decoder finds the end of the data where the
\* s INTEGER should start).
C19_IntegerOutOfBounds ==
    ( /\ parsed.called
      /\ Len(parsed.der) >= 2
      /\ parsed.der[1] = 48
      /\ RTagPosition(parsed.der) < Len(parsed.der)
      /\ IntegerHeaderAt(parsed.der, RTagPosition(parsed.der)) ) =>
        LET der == parsed.der
            pos == RTagPosition(der)
        IN  /\ DeclaredExceedsRemaining(der, pos)
                  => (~parsed.ok /\ parsed.err = ErrIntegerOutOfBounds)
            /\ DeclaredEqualsRemaining(der, pos)
                  => (~parsed.ok /\ parsed.err = ErrUnexpectedEnd)


\* The length byte at the 1-based index p of der is in long form and announces
\* more length bytes than der has left.
LongFormPastEnd(der, p) ==
    /\ p <= Len(der)
    /\ der[p] >= 128
    /\ p + (der[p] % 128) > Len(der)

\* C20: a long-form length, in the SEQUENCE header or in an INTEGER header,
\* whose count of length bytes would move the cursor past the end of the buffer
\* fails with Length out of bounds (stated for the SEQUENCE and the r INTEGER).
C20_LengthOutOfBounds ==
    (parsed.called /\ Len(parsed.der) >= 2 /\ parsed.der[1] = 48) =>
        LET der == parsed.der
        IN  IF LongFormPastEnd(der, 2)
            THEN ~parsed.ok /\ parsed.err = ErrLengthOutOfBounds
            ELSE ( /\ RTagPosition(der) < Len(der)
                   /\ der[RTagPosition(der) + 1] = 2
                   /\ LongFormPastEnd(der, RTagPosition(der) + 2) )
                 => (~parsed.ok /\ parsed.err = ErrLengthOutOfBounds)


\* A signTransaction call of caller t is under way or has ended.
Signing(t) == tz[t].pc \in {"awaitSign", "signed"}

\* C18: signTransaction on a transaction whose chainId is undefined fails with
\* "Trezor: chainId is required for transaction signing" before any
\* TrezorConnect.ethereumSignTransaction request is issued, and returns no
\* signature.
C18_ChainIdRequired ==
    \A t \in TrezorCallers :
        (Signing(t) /\ tz[t].transaction[1].chainId = Undefined) =>
            /\ tz[t].pc = "signed"
            /\ tz[t].signed.kind = "throw"
            /\ tz[t].signed.value = ErrChainIdRequired
            /\ tz[t].request = Undefined

\* An EIP-1559 transaction without chainId was given to an account with a
\* custom derivation path, and the call has thrown.
C18_Witness ==
    \E t \in TrezorCallers :
        /\ tz[t].pc = "signed"
        /\ tz[t].transaction = Some(Tx1559NoChainId)
        /\ tz[t].config = Some(ConfigACustomPath)
        /\ tz[t].signed = TzThrow(ErrChainIdRequired)


\* The decoder was called on a decodable buffer with trailing bytes appended or
\* with another value in its SEQUENCE length.
DecodedVariant == parsed.called /\ parsed.origin.kind = "variant"

\* C21: the SEQUENCE length is never validated and trailing bytes are ignored:
\* a buffer that decodes to (r, s) still decodes to the same (r, s) after bytes
\* are appended behind the second INTEGER or the value of the SEQUENCE length
\* (the short-form byte, or the skipped long-form bytes) is changed.
C21_TrailingBytesIgnored ==
    DecodedVariant =>
        /\ parsed.ok
        /\ parsed.r = parsed.origin.r
        /\ parsed.s = parsed.origin.s


\* The manifest key of the createTrezorAccount call of caller t.
KeyOf(t) == getManifestKey(tz[t].config[1])

\* Caller t has had TrezorConnect.ethereumGetAddress requested.
AddressRequested(t) ==
    tz[t].pc \in {"awaitAddress", "ready", "awaitSign", "signed"}

\* C22: TrezorConnect.init is invoked at most once for each manifest key, also
\* when several calls with the same key start before the first init has
\* resolved, and no call requests ethereumGetAddress before the init promise
\* stored under its key has resolved.
C22_InitOncePerKey ==
    /\ \A key \in DOMAIN initCalls : initCalls[key] <= 1
    /\ \A t \in TrezorCallers :
          /\ tz[t].pc # "idle"
                => /\ hasKey(initializationPromises, KeyOf(t))
                   /\ initCalls[KeyOf(t)] = 1
          /\ AddressRequested(t)
                => initializationPromises[KeyOf(t)] = Fulfilled

\* Two calls with the same manifest wait for one init that has not resolved.
C22_Witness ==
    \E t, u \in TrezorCallers :
        /\ t # u
        /\ tz[t].pc = "awaitInit" /\ tz[u].pc = "awaitInit"
        /\ tz[t].config = Some(ConfigA)
        /\ tz[u].config = Some(ConfigACustomPath)
        /\ initializationPromises[KeyOf(t)] = Pending
        /\ initCalls[KeyOf(t)] = 1


\* The manifest of a configuration: its email, appUrl and appName.
ManifestOf(config) == <<config.email, config.appUrl, config.appName>>

\* C23: two configurations share one initialization entry only if they have
\* the same email, the same appUrl and the same appName: the calls of two
\* callers whose manifests differ have different manifest keys.
C23_KeyPerManifest ==
    \A t, u \in TrezorCallers :
        (tz[t].pc # "idle" /\ tz[u].pc # "idle" /\ KeyOf(t) = KeyOf(u))
            => ManifestOf(tz[t].config[1]) = ManifestOf(tz[u].config[1])


\* An entry of the Map stays: its key is never removed and its promise never
\* replaced (a pending promise may settle, a settled one stays as it is).
EntryKept ==
    \A key \in DOMAIN initializationPromises :
        /\ key \in DOMAIN initializationPromises'
        /\ \/ initializationPromises'[key] = initializationPromises[key]
           \/ /\ initializationPromises[key] = Pending
              /\ initializationPromises'[key] \in InitOutcomes
        /\ initCalls'[key] = initCalls[key]

\* A call whose key has a rejected init does not get further than the await
\* of that promise: it fails with the error of the init, TrezorConnect.init was
\* invoked once for the key, and ethereumGetAddress is not requested.
RejectedIsFinal ==
    \A t \in TrezorCallers :
        ( /\ tz[t].pc # "idle"
          /\ hasKey(initializationPromises, KeyOf(t))
          /\ initializationPromises[KeyOf(t)].state = "rejected" ) =>
            /\ tz[t].pc \in {"awaitInit", "awaitEnsure", "failed"}
            /\ tz[t].pc = "awaitEnsure"
                  => tz[t].ensured = TzThrow(initializationPromises[KeyOf(t)].error)
            /\ tz[t].pc = "failed"
                  => tz[t].created = TzThrow(initializationPromises[KeyOf(t)].error)
            /\ initCalls[KeyOf(t)] = 1

\* C24: the initialization cache only grows: an entry is never removed or
\* replaced, so once TrezorConnect.init has rejected for a key, every
\* createTrezorAccount call with that key rejects with the same error, without
\* another TrezorConnect.init and without reaching ethereumGetAddress.
C24_CacheOnlyGrows == [][EntryKept]_vars /\ []RejectedIsFinal

\* After the init of a key was rejected, the calls of both callers with that
\* key, one with the default and one with a custom path, have failed with the
\* error of that one init.
C24_Witness ==
    \E t, u \in TrezorCallers :
        /\ t # u
        /\ tz[t].pc = "failed" /\ tz[u].pc = "failed"
        /\ tz[t].config = Some(ConfigA)
        /\ tz[u].config = Some(ConfigACustomPath)
        /\ initializationPromises[KeyOf(t)] = Rejected(InitError)
        /\ tz[t].created = TzThrow(InitError)
        /\ tz[u].created = TzThrow(InitError)
        /\ initCalls[KeyOf(t)] = 1

=============================================================================
